---- MODULE Spec2Model ----
(***************************************************************************)
(* homie-telegraf: the dispatch loop of src/src/main.rs.  The program      *)
(* polls a Homie controller, turns every PropertyValueChanged event into   *)
(* a HomieMetric point (its string value normalised to an f32) and writes  *)
(* the point to telegraf or to influx.                                     *)
(*                                                                         *)
(* f32 values are kept in tenths: 2.2f32 is 22, 1f32 is 10.                *)
(* Option<T> and Result<T, E> are sequences: Some(x)/Ok(x) is <<x>>,       *)
(* None/Err is <<>>.                                                       *)
(***************************************************************************)
EXTENDS Integers, Sequences, FiniteSets, TLC

\* ------------------------------------------------------------------ bounds
\* The number of events the event source delivers in one run, over all polls.
MaxEvents == 3

\* --------------------------------------------------------- program constants
TELEGRAF_HOST == "192.168.1.158"
TELEGRAF_INPUT_SOCKET == 5094
INFLUX_HOST == "192.168.1.158"
INFLUX_PORT == 8086

\* ------------------------------------------------------------ Option / Result
Some(x) == <<x>>
None == <<>>
unwrap(o) == o[1]

\* --------------------------------------------------- vocabulary membership
in_zone_priority(s) == s \in {"economy", "comfort"}

in_current_mode(s) ==
    s \in {"lockout", "standby", "blower", "heating", "heating_with_aux",
           "emergency_heat", "cooling", "waiting", "h1", "h2", "h3", "c1", "c2"}

in_target_fan_mode(s) == s \in {"auto", "continuous", "intermittent"}

in_target_mode(s) == s \in {"off", "auto", "cool", "heat", "eheat"}

in_humidifier_mode(s) == s \in {"auto", "manual"}

\* -------------------------------------------------------- vocabulary codes
current_mode_to_value(s) ==
    IF in_current_mode(s) # TRUE THEN None
    ELSE Some(CASE s = "lockout" -> 10
                [] s = "standby" -> 20
                [] s = "blower" -> 30
                [] s = "heating" -> 40
                [] s = "heating_with_aux" -> 50
                [] s = "emergency_heat" -> 60
                [] s = "cooling" -> 70
                [] s = "waiting" -> 80
                [] s = "h1" -> 21
                [] s = "h2" -> 22
                [] s = "h3" -> 23
                [] s = "c1" -> 24
                [] s = "c2" -> 25
                [] OTHER -> 0)

humidifier_mode_to_value(s) ==
    IF in_humidifier_mode(s) # TRUE THEN None
    ELSE Some(CASE s = "auto" -> 10
                [] s = "manual" -> 20
                [] OTHER -> 0)

zone_priority_to_value(s) ==
    IF in_zone_priority(s) # TRUE THEN None
    ELSE Some(CASE s = "economy" -> 10
                [] s = "comfort" -> 20
                [] OTHER -> 0)

target_mode_to_value(s) ==
    IF in_target_mode(s) # TRUE THEN None
    ELSE Some(CASE s = "off" -> 10
                [] s = "auto" -> 20
                [] s = "cool" -> 30
                [] s = "heat" -> 40
                [] s = "eheat" -> 50
                [] OTHER -> 0)

\* The third arm of the source matches "intermittent " (with a trailing space).
target_fan_mode_to_value(s) ==
    IF in_target_fan_mode(s) # TRUE THEN None
    ELSE Some(CASE s = "auto" -> 10
                [] s = "continuous" -> 20
                [] s = "intermittent " -> 30
                [] OTHER -> 0)

\* ------------------------------------------------------------- value.parse()
\* str::parse::<f32> on the raw values the model delivers: the decimal
\* literals parse (no trimming: a literal with a space does not), every
\* other string is an Err.  Ok values are in tenths.
parse(s) ==
    CASE s = "0" -> Some(0)
      [] s = "1" -> Some(10)
      [] s = "1.0" -> Some(10)
      [] s = "2.2" -> Some(22)
      [] s = "21.5" -> Some(215)
      [] s = "-3.5" -> Some(-35)
      [] s = "+7" -> Some(70)
      [] s = ".5" -> Some(5)
      [] s = "1e1" -> Some(100)
      [] OTHER -> None

\* ------------------------------------------------- the normalisation match
\* Mutant of normalize: the target-mode arm placed before the humidifier-mode arm.
normalize_target_mode_first(value) ==
    IF parse(value) # None THEN [val |-> unwrap(parse(value)), soft |-> FALSE]
    ELSE IF value \in {"true", "open"} THEN [val |-> 10, soft |-> FALSE]
    ELSE IF value \in {"false", "closed"} THEN [val |-> 0, soft |-> FALSE]
    ELSE IF in_current_mode(value)
        THEN [val |-> unwrap(current_mode_to_value(value)), soft |-> FALSE]
    ELSE IF in_target_mode(value)
        THEN [val |-> unwrap(target_mode_to_value(value)), soft |-> FALSE]
    ELSE IF in_humidifier_mode(value)
        THEN [val |-> unwrap(humidifier_mode_to_value(value)), soft |-> FALSE]
    ELSE IF in_target_fan_mode(value)
        THEN [val |-> unwrap(target_fan_mode_to_value(value)), soft |-> FALSE]
    ELSE IF in_zone_priority(value)
        THEN [val |-> unwrap(zone_priority_to_value(value)), soft |-> FALSE]
    ELSE [val |-> 0, soft |-> TRUE]

\* Mutant of normalize: the fallback arm logs nothing.
normalize_silent_fallback(value) ==
    IF parse(value) # None THEN [val |-> unwrap(parse(value)), soft |-> FALSE]
    ELSE IF value \in {"true", "open"} THEN [val |-> 10, soft |-> FALSE]
    ELSE IF value \in {"false", "closed"} THEN [val |-> 0, soft |-> FALSE]
    ELSE IF in_current_mode(value)
        THEN [val |-> unwrap(current_mode_to_value(value)), soft |-> FALSE]
    ELSE IF in_humidifier_mode(value)
        THEN [val |-> unwrap(humidifier_mode_to_value(value)), soft |-> FALSE]
    ELSE IF in_target_mode(value)
        THEN [val |-> unwrap(target_mode_to_value(value)), soft |-> FALSE]
    ELSE IF in_target_fan_mode(value)
        THEN [val |-> unwrap(target_fan_mode_to_value(value)), soft |-> FALSE]
    ELSE IF in_zone_priority(value)
        THEN [val |-> unwrap(zone_priority_to_value(value)), soft |-> FALSE]
    ELSE [val |-> 0, soft |-> FALSE]

\* The value expression of the HomieMetric literal: the parsed float, or the
\* first arm of the match on value.as_str() that applies.  soft is TRUE when
\* the fallback arm ran (it logs "can't convert ..." and yields 0.0).
normalize(value) ==
    IF parse(value) # None THEN [val |-> unwrap(parse(value)), soft |-> FALSE]
    ELSE IF value \in {"true", "open"} THEN [val |-> 10, soft |-> FALSE]
    ELSE IF value \in {"false", "closed"} THEN [val |-> 0, soft |-> FALSE]
    ELSE IF in_current_mode(value)
        THEN [val |-> unwrap(current_mode_to_value(value)), soft |-> FALSE]
    ELSE IF in_humidifier_mode(value)
        THEN [val |-> unwrap(humidifier_mode_to_value(value)), soft |-> FALSE]
    ELSE IF in_target_mode(value)
        THEN [val |-> unwrap(target_mode_to_value(value)), soft |-> FALSE]
    ELSE IF in_target_fan_mode(value)
        THEN [val |-> unwrap(target_fan_mode_to_value(value)), soft |-> FALSE]
    ELSE IF in_zone_priority(value)
        THEN [val |-> unwrap(zone_priority_to_value(value)), soft |-> FALSE]
    ELSE [val |-> 0, soft |-> TRUE]

\* Mutant of HomieMetric: the device and node identifiers land in each other's tag.
HomieMetric_tags_swapped(event) ==
    [value |-> normalize(event.value).val,
     device_id_tag |-> event.node_id,
     node_id_tag |-> event.device_id,
     property_id_tag |-> event.property_id]

\* The HomieMetric literal: the identifiers are moved into the tags as they are.
HomieMetric(event) ==
    [value |-> normalize(event.value).val,
     device_id_tag |-> event.device_id,
     node_id_tag |-> event.node_id,
     property_id_tag |-> event.property_id]

\* ------------------------------------------------------- configuration
\* PushMethod::from_str accepts "influx" and "telegraf"; any other string
\* exits during startup, before the loop.
PushMethod == {"influx", "telegraf"}

\* The command lines the model starts from: the defaults and one override.
Args ==
    {[tel_host |-> TELEGRAF_HOST, tel_port |-> TELEGRAF_INPUT_SOCKET],
     [tel_host |-> "telegraf.lan", tel_port |-> 8094]}

\* `let retry = false;` guards the reconnect branch.  The shipped value is
\* FALSE; TRUE is the other setting of the knob, the one that branch is for.
RetryKnob == {FALSE, TRUE}

\* Client::new(url): a connection to url.  id counts the connections built.
Client(transport, host, port, id) ==
    [transport |-> transport, host |-> host, port |-> port, id |-> id]

\* The client built at startup: format!("{}://{}:{}", TelTransport::Udp, ..).
InitialClient(args) == Client("udp", args.tel_host, args.tel_port, 0)

\* The client built by the reconnect branch: format!("tcp://{}:{}", ..).
ReconnectClient(args, id) == Client("tcp", args.tel_host, args.tel_port, id)

\* telegraf_client after drop(telegraf_client), before it is assigned again.
Dropped == [transport |-> "none", host |-> "", port |-> 0, id |-> 0]

\* ----------------------------------------------------------------- events
NoEvent == [kind |-> "None"]
NoPoint == [kind |-> "None"]

\* (device_id, node_id, property_id) of the events delivered, empty ones included.
Dimensions == {<<"", "", "">>, <<"hvac", "zone1", "mode">>}

PropertyValueChanged(dim, value, fresh) ==
    [kind |-> "PropertyValueChanged", device_id |-> dim[1], node_id |-> dim[2],
     property_id |-> dim[3], value |-> value, fresh |-> fresh]

\* Any other variant of Event (DeviceUpdated, NodeUpdated, ...).
OtherEvent == [kind |-> "Other"]

\* Raw values of the loop's events: one that normalises and one that does not.
SampleValues == {"heating", "gibberish"}

SampleEvents ==
    {PropertyValueChanged(d, v, TRUE) : d \in Dimensions, v \in SampleValues}
        \cup {OtherEvent}

\* Every token of the five vocabularies, the boolean synonyms, the float
\* literals of parse, and strings no rule accepts.
AllValues ==
    {"lockout", "standby", "blower", "heating", "heating_with_aux",
     "emergency_heat", "cooling", "waiting", "h1", "h2", "h3", "c1", "c2",
     "auto", "manual", "economy", "comfort", "off", "cool", "heat", "eheat",
     "continuous", "intermittent",
     "true", "open", "false", "closed",
     "0", "1", "1.0", "2.2", "21.5", "-3.5", "+7", ".5", "1e1",
     "gibberish", "", " 1", "True", "on", "intermittent ", "AUTO"}

AllEvents ==
    {PropertyValueChanged(d, v, f) : d \in Dimensions, v \in AllValues, f \in BOOLEAN}

\* The errors poll returns: one the event source would recover from on the
\* next poll (a dropped connection it reconnects), one it would not.
PollError == {"recoverable", "unrecoverable"}

\* controller.devices(): device id -> has_required_attributes().
DeviceSnapshots == {[d \in {"hvac"} |-> TRUE], [d \in {"hvac"} |-> FALSE]}

\* No device is known before the first poll.
NoDevices == [d \in {} |-> TRUE]

\* Sequences over S of length 0..n.
SeqsUpTo(S, n) == UNION {[1..k -> S] : k \in 0..n}

\* ------------------------------------------------------------------ state
VARIABLES
    pc,               \* where main is: "poll", "next", "write", "reconnect",
                      \* "retry_write", "exited", "panicked"
    cli,              \* the parsed command line
    push_method,      \* Ok(PushMethod)
    retry,            \* the retry knob of the write error arm
    telegraf_client,  \* the telegraf connection in use
    events,           \* what is left of the batch's iterator
    event,            \* the event being handled
    point,            \* the HomieMetric built for it
    devices,          \* controller.devices()
    sink,             \* the points the sinks accepted, in order
    log,              \* the error! lines and the device lines written
    delivered,        \* history: every event poll returned, in order
    built,            \* history: every point built, with its event's position
    attempts,         \* history: every write attempted
    reconnects,       \* history: every Client::new of the reconnect branch
    connections       \* history: the number of telegraf connections built

vars == <<pc, cli, push_method, retry, telegraf_client, events, event, point,
          devices, sink, log, delivered, built, attempts, reconnects,
          connections>>

terminated == pc \in {"exited", "panicked"}

\* Position in `delivered` of the event being handled.
position == Len(delivered) - Len(events)

Init ==
    /\ pc = "poll"
    /\ cli \in Args
    /\ push_method \in PushMethod
    /\ retry \in RetryKnob
    /\ telegraf_client = InitialClient(cli)
    /\ events = <<>>
    /\ event = NoEvent
    /\ point = NoPoint
    /\ devices = NoDevices
    /\ sink = <<>>
    /\ log = <<>>
    /\ delivered = <<>>
    /\ built = <<>>
    /\ attempts = <<>>
    /\ reconnects = <<>>
    /\ connections = 1

\* The for loop's next step once an event is done: the next event of the
\* batch, or, with the iterator exhausted, the next poll.
Continue(rest) == IF rest = <<>> THEN "poll" ELSE "next"

\* Mutant of Iterate: the iterator yields the events back to front.
Iterate_reversed(evs) == [item |-> evs[Len(evs)], rest |-> SubSeq(evs, 1, Len(evs) - 1)]

\* `for event in events`: the iterator yields the events front to back.
Iterate(evs) == [item |-> Head(evs), rest |-> Tail(evs)]

\* influx_client: built once at startup, never rebuilt.
InfluxClient == [transport |-> "http", host |-> INFLUX_HOST, port |-> INFLUX_PORT, id |-> 0]

\* A write attempted for the event being handled, over connection `conn`.
Attempt(conn, ok) ==
    [at |-> position, event |-> event, point |-> point, conn |-> conn, ok |-> ok]

\* What the sink keeps of a write it accepted.
Accepted(conn) == [at |-> position, point |-> point, conn |-> conn]

\* The step after the first telegraf write failed: `if retry { .. } else { panic! }`.
AfterWriteError(r) == IF r THEN "reconnect" ELSE "panicked"

\* Mutant of AfterRetryOk: the panic sits in the Ok arm as well.
AfterRetryOk_panics(rest) == "panicked"

\* The step after the write over the new client succeeded: trace!, and the
\* for loop goes on.
AfterRetryOk(rest) == Continue(rest)

\* Mutant of AfterRetryError: the failed retry reconnects again.
AfterRetryError_reconnects_again == "reconnect"

\* The step after the write over the new client failed: error!, then panic!.
AfterRetryError == "panicked"

\* The step after the influx write failed: the error is logged, nothing more.
AfterInfluxError(rest) == Continue(rest)

\* Mutant of AfterPollError: the error is logged and the loop polls again.
AfterPollError_polls_again == "poll"

\* The step after a poll error: error!, then process::exit(1).
AfterPollError == "exited"

\* Mutant of AfterOther: a device that is not ready is treated as fatal.
AfterOther_exits_on_unready(rest, devs) ==
    IF \E d \in DOMAIN devs : ~devs[d] THEN "exited" ELSE Continue(rest)

\* The step after the device loop of the else arm: the for loop goes on,
\* whatever the devices' readiness.
AfterOther(rest, devs) == Continue(rest)

\* The lines the device loop writes: one per known device.
DeviceLines(devs) ==
    {[line |-> IF devs[d] THEN "device" ELSE "device not ready", device |-> d] :
        d \in DOMAIN devs}

\* ---------------------------------------------------------------- actions
\* controller.poll(&mut event_loop).await returned Ok(batch).
PollOk(batch, snapshot) ==
    /\ pc = "poll"
    /\ Len(delivered) + Len(batch) <= MaxEvents
    /\ events' = batch
    /\ delivered' = delivered \o batch
    /\ devices' = snapshot
    /\ pc' = Continue(batch)
    /\ UNCHANGED <<cli, push_method, retry, telegraf_client, event, point, sink,
                   log, built, attempts, reconnects, connections>>

\* controller.poll(&mut event_loop).await returned Err(e).
PollErr(e) ==
    /\ pc = "poll"
    /\ log' = Append(log, [line |-> "Homie Controller Poll Error", error |-> e])
    /\ pc' = AfterPollError
    /\ UNCHANGED <<cli, push_method, retry, telegraf_client, events, event, point,
                   devices, sink, delivered, built, attempts, reconnects, connections>>

\* The next event is a PropertyValueChanged: its value is normalised and the
\* HomieMetric is built.
HandleProperty ==
    /\ pc = "next"
    /\ events # <<>>
    /\ Iterate(events).item.kind = "PropertyValueChanged"
    /\ LET e == Iterate(events).item
           p == HomieMetric(e)
       IN /\ event' = e
          /\ events' = Iterate(events).rest
          /\ point' = p
          /\ built' = Append(built, [at |-> Len(delivered) - Len(Iterate(events).rest),
                                     event |-> e, point |-> p])
          /\ log' = IF normalize(e.value).soft
                    THEN Append(log, [line |-> "can't convert", value |-> e.value,
                                      device_id |-> e.device_id, node_id |-> e.node_id,
                                      property_id |-> e.property_id])
                    ELSE log
    /\ pc' = "write"
    /\ UNCHANGED <<cli, push_method, retry, telegraf_client, devices, sink,
                   delivered, attempts, reconnects, connections>>

\* The next event is of another kind: the known devices are listed.
HandleOther ==
    /\ pc = "next"
    /\ events # <<>>
    /\ Iterate(events).item.kind # "PropertyValueChanged"
    /\ events' = Iterate(events).rest
    /\ \E lines \in [1..Cardinality(DOMAIN devices) -> DeviceLines(devices)] :
          /\ {lines[i] : i \in DOMAIN lines} = DeviceLines(devices)
          /\ log' = log \o lines
    /\ pc' = AfterOther(Iterate(events).rest, devices)
    /\ UNCHANGED <<cli, push_method, retry, telegraf_client, event, point, devices,
                   sink, delivered, built, attempts, reconnects, connections>>

\* telegraf_client.write(&point) returned Ok.
TelegrafWriteOk ==
    /\ pc = "write"
    /\ push_method = "telegraf"
    /\ attempts' = Append(attempts, Attempt(telegraf_client, TRUE))
    /\ sink' = Append(sink, Accepted(telegraf_client))
    /\ event' = NoEvent
    /\ point' = NoPoint
    /\ pc' = Continue(events)
    /\ UNCHANGED <<cli, push_method, retry, telegraf_client, events, devices, log,
                   delivered, built, reconnects, connections>>

\* telegraf_client.write(&point) returned Err: with retry the client is
\* dropped and the reconnect follows, without it main panics.
TelegrafWriteErr ==
    /\ pc = "write"
    /\ push_method = "telegraf"
    /\ attempts' = Append(attempts, Attempt(telegraf_client, FALSE))
    /\ log' = Append(log, [line |-> "failed to write point"])
    /\ telegraf_client' = IF retry THEN Dropped ELSE telegraf_client
    /\ pc' = AfterWriteError(retry)
    /\ UNCHANGED <<cli, push_method, retry, events, event, point, devices, sink,
                   delivered, built, reconnects, connections>>

\* Client::new("tcp://host:port") returned Ok: telegraf_client is the new client.
ReconnectOk ==
    /\ pc = "reconnect"
    /\ telegraf_client' = ReconnectClient(cli, connections)
    /\ connections' = connections + 1
    /\ reconnects' = Append(reconnects, [at |-> position, ok |-> TRUE])
    /\ pc' = "retry_write"
    /\ UNCHANGED <<cli, push_method, retry, events, event, point, devices, sink,
                   log, delivered, built, attempts>>

\* Client::new("tcp://host:port") returned Err: .expect panics.
ReconnectErr ==
    /\ pc = "reconnect"
    /\ reconnects' = Append(reconnects, [at |-> position, ok |-> FALSE])
    /\ pc' = "panicked"
    /\ UNCHANGED <<cli, push_method, retry, telegraf_client, events, event, point,
                   devices, sink, log, delivered, built, attempts, connections>>

\* The write over the new client returned Ok.
RetryWriteOk ==
    /\ pc = "retry_write"
    /\ attempts' = Append(attempts, Attempt(telegraf_client, TRUE))
    /\ sink' = Append(sink, Accepted(telegraf_client))
    /\ event' = NoEvent
    /\ point' = NoPoint
    /\ pc' = AfterRetryOk(events)
    /\ UNCHANGED <<cli, push_method, retry, telegraf_client, events, devices, log,
                   delivered, built, reconnects, connections>>

\* The write over the new client returned Err: main panics.
RetryWriteErr ==
    /\ pc = "retry_write"
    /\ attempts' = Append(attempts, Attempt(telegraf_client, FALSE))
    /\ log' = Append(log, [line |-> "failed to write point after attempted reconnect"])
    /\ pc' = AfterRetryError
    /\ UNCHANGED <<cli, push_method, retry, telegraf_client, events, event, point,
                   devices, sink, delivered, built, reconnects, connections>>

\* influx_client.write_point(..).await returned Ok.
InfluxWriteOk ==
    /\ pc = "write"
    /\ push_method = "influx"
    /\ attempts' = Append(attempts, Attempt(InfluxClient, TRUE))
    /\ sink' = Append(sink, Accepted(InfluxClient))
    /\ event' = NoEvent
    /\ point' = NoPoint
    /\ pc' = Continue(events)
    /\ UNCHANGED <<cli, push_method, retry, telegraf_client, events, devices, log,
                   delivered, built, reconnects, connections>>

\* influx_client.write_point(..).await returned Err: logged, the loop goes on.
InfluxWriteErr ==
    /\ pc = "write"
    /\ push_method = "influx"
    /\ attempts' = Append(attempts, Attempt(InfluxClient, FALSE))
    /\ log' = Append(log, [line |-> "influxdb: failed to write point"])
    /\ event' = NoEvent
    /\ point' = NoPoint
    /\ pc' = AfterInfluxError(events)
    /\ UNCHANGED <<cli, push_method, retry, telegraf_client, events, devices, sink,
                   delivered, built, reconnects, connections>>

Poll ==
    \E batch \in SeqsUpTo(SampleEvents, MaxEvents - Len(delivered)),
       snapshot \in DeviceSnapshots :
        PollOk(batch, snapshot)

Next ==
    \/ Poll
    \/ \E e \in PollError : PollErr(e)
    \/ HandleProperty
    \/ HandleOther
    \/ TelegrafWriteOk
    \/ TelegrafWriteErr
    \/ ReconnectOk
    \/ ReconnectErr
    \/ RetryWriteOk
    \/ RetryWriteErr
    \/ InfluxWriteOk
    \/ InfluxWriteErr

Spec == Init /\ [][Next]_vars

\* ------------------------------------------- the normaliser on every value
\* One poll that delivers one property event, with any raw value; the event
\* is normalised and its point built.
PollOne == \E e \in AllEvents : delivered = <<>> /\ PollOk(<<e>>, devices)

NextNorm ==
    \/ PollOne
    \/ HandleProperty

SpecNorm == Init /\ [][NextNorm]_vars

\* ================================================================ claims
\* The registry the claims speak of: each vocabulary's tokens and codes (tenths).
CurrentOperatingMode ==
    "lockout" :> 10 @@ "standby" :> 20 @@ "blower" :> 30 @@ "heating" :> 40
    @@ "heating_with_aux" :> 50 @@ "emergency_heat" :> 60 @@ "cooling" :> 70
    @@ "waiting" :> 80 @@ "h1" :> 21 @@ "h2" :> 22 @@ "h3" :> 23 @@ "c1" :> 24
    @@ "c2" :> 25

HumidifierMode == "auto" :> 10 @@ "manual" :> 20

ZonePriority == "economy" :> 10 @@ "comfort" :> 20

TargetMode == "off" :> 10 @@ "auto" :> 20 @@ "cool" :> 30 @@ "heat" :> 40 @@ "eheat" :> 50

TargetFanMode == "auto" :> 10 @@ "continuous" :> 20 @@ "intermittent" :> 30

Vocabularies == {CurrentOperatingMode, HumidifierMode, ZonePriority, TargetMode, TargetFanMode}

\* C1: every token of every vocabulary, normalised as the value of a
\* property-change event, yields that vocabulary's code for it.
\* (The claim as stated; the code breaks it on "intermittent" and on "auto".)
C1_TokenGetsItsVocabularyCode ==
    \A i \in 1..Len(built) : \A V \in Vocabularies :
        built[i].event.value \in DOMAIN V => built[i].point.value = V[built[i].event.value]

\* The vocabularies in the order the normaliser tests them.
VocabularyOrder ==
    <<"current-operating-mode", "humidifier-mode", "target-mode", "target-fan-mode",
      "zone-priority">>

Contains(vocabulary, s) ==
    CASE vocabulary = "current-operating-mode" -> in_current_mode(s)
      [] vocabulary = "humidifier-mode" -> in_humidifier_mode(s)
      [] vocabulary = "target-mode" -> in_target_mode(s)
      [] vocabulary = "target-fan-mode" -> in_target_fan_mode(s)
      [] vocabulary = "zone-priority" -> in_zone_priority(s)

CodeIn(vocabulary, s) ==
    CASE vocabulary = "current-operating-mode" -> current_mode_to_value(s)
      [] vocabulary = "humidifier-mode" -> humidifier_mode_to_value(s)
      [] vocabulary = "target-mode" -> target_mode_to_value(s)
      [] vocabulary = "target-fan-mode" -> target_fan_mode_to_value(s)
      [] vocabulary = "zone-priority" -> zone_priority_to_value(s)

\* The vocabularies that contain s, as positions of VocabularyOrder.
Containing(s) == {k \in DOMAIN VocabularyOrder : Contains(VocabularyOrder[k], s)}

Earliest(ks) == CHOOSE k \in ks : \A j \in ks : k <= j

\* C7: the rules apply in strict order and the first that matches decides:
\* a value that parses as a float is returned as parsed; otherwise "true" and
\* "open" give 1.0, "false" and "closed" give 0.0; otherwise the earliest
\* vocabulary, in the order current-operating-mode, humidifier-mode,
\* target-mode, target-fan-mode, zone-priority, that contains the value
\* supplies the code.
C7_FirstMatchingRuleDecides ==
    \A i \in 1..Len(built) :
        LET v == built[i].event.value
            x == built[i].point.value
        IN /\ parse(v) # None => x = unwrap(parse(v))
           /\ parse(v) = None /\ v \in {"true", "open"} => x = 10
           /\ parse(v) = None /\ v \in {"false", "closed"} => x = 0
           /\ parse(v) = None /\ v \notin {"true", "open", "false", "closed"}
                /\ Containing(v) # {}
                => x = unwrap(CodeIn(VocabularyOrder[Earliest(Containing(v))], v))

\* C7 witness: "auto", a token of three vocabularies, got the code of the
\* earliest of them, humidifier-mode (1.0), and a float literal got its value.
C7_Witness ==
    /\ built # <<>>
    /\ built[1].event.value = "auto"
    /\ Cardinality(Containing("auto")) = 3
    /\ built[1].point.value = HumidifierMode["auto"]
    /\ pc = "write"

\* ------------------------------------------------------- the sink writer
Last(q) == q[Len(q)]

PollErrorLine(l) == l.line = "Homie Controller Poll Error"

\* attempts[k] is the second write of its point: the one after the reconnect.
IsRetry(k) == k > 1 /\ attempts[k].at = attempts[k - 1].at

\* The connection parameters of a client.
Parameters(c) == <<c.transport, c.host, c.port>>

\* C2: with retry disabled, a failed sink write terminates the process,
\* whichever push method delivers the point: the failed write is the last
\* one, no later event is taken from the batch and the loop never polls again.
\* (The claim as stated; the influx arm of the code breaks it.)
C2_WriteFailureTerminates ==
    ~retry =>
        \A k \in DOMAIN attempts :
            ~attempts[k].ok =>
                /\ terminated
                /\ k = Len(attempts)
                /\ position = attempts[k].at

\* C3: with retry enabled, when a point's first write fails and the write
\* over the rebuilt connection succeeds, the process does not panic, the sink
\* holds that point exactly once, the rebuilt connection stays the one in use
\* for the writes that follow, and the loop goes on with the next event.
C3_RetrySuccessDeliversOnce ==
    \A k \in DOMAIN attempts :
        IsRetry(k) /\ attempts[k].ok =>
            LET a == attempts[k]
                first == attempts[k - 1]
            IN /\ retry
               /\ ~first.ok
               /\ a.point = first.point
               /\ a.point = HomieMetric(delivered[a.at])
               /\ a.conn # first.conn
               /\ a.conn.id = first.conn.id + 1
               /\ Cardinality({i \in DOMAIN sink : sink[i].at = a.at}) = 1
               /\ \E i \in DOMAIN sink :
                     sink[i] = [at |-> a.at, point |-> a.point, conn |-> a.conn]
               /\ k < Len(attempts) =>
                     /\ attempts[k + 1].conn = a.conn
                     /\ attempts[k + 1].at > a.at
               /\ k = Len(attempts) =>
                     /\ telegraf_client = a.conn
                     /\ pc # "panicked"
                     /\ pc = "exited" => PollErrorLine(Last(log))
                     /\ position = a.at =>
                           /\ pc \in {"next", "poll", "exited"}
                           /\ events # <<>> => pc = "next"

\* C3 witness: a first write failed, the retry succeeded, and the next
\* event's point was then written over the rebuilt connection.
C3_Witness ==
    /\ retry
    /\ \E k \in DOMAIN attempts :
          /\ IsRetry(k)
          /\ attempts[k].ok
          /\ ~attempts[k - 1].ok
          /\ k < Len(attempts)
          /\ attempts[k + 1].ok
          /\ attempts[k + 1].conn = attempts[k].conn
          /\ Len(sink) >= 2

\* C4: a failed write triggers at most one recovery for its point: the old
\* connection is discarded, one new connection is built and the same point is
\* written once more, so no point is attempted more than twice; a recovery
\* that fails (the reconnect or the second write) terminates the process and
\* no further event is processed.
C4_AtMostOneRecovery ==
    /\ \A p \in 1..Len(delivered) :
          /\ Cardinality({k \in DOMAIN attempts : attempts[k].at = p}) <= 2
          /\ Cardinality({r \in DOMAIN reconnects : reconnects[r].at = p}) <= 1
    /\ \A k \in DOMAIN attempts :
          IsRetry(k) =>
              /\ retry
              /\ ~attempts[k - 1].ok
              /\ attempts[k].point = attempts[k - 1].point
              /\ attempts[k].event = attempts[k - 1].event
              /\ attempts[k].conn.id = attempts[k - 1].conn.id + 1
              /\ \E r \in DOMAIN reconnects :
                    reconnects[r] = [at |-> attempts[k].at, ok |-> TRUE]
              /\ ~attempts[k].ok =>
                    /\ pc = "panicked"
                    /\ k = Len(attempts)
    /\ \A r \in DOMAIN reconnects :
          /\ \E k \in DOMAIN attempts :
                attempts[k].at = reconnects[r].at /\ ~attempts[k].ok
          /\ ~reconnects[r].ok => pc = "panicked" /\ r = Len(reconnects)
    /\ pc = "reconnect" => telegraf_client = Dropped /\ ~Last(attempts).ok
    /\ pc = "panicked" =>
          /\ position = Last(attempts).at
          /\ Last(built).at = position
          /\ Len(sink) < Len(built)

\* C4 witness: with retry enabled, a point's two writes both failed and the
\* process stopped with events of the batch left.
C4_Witness ==
    /\ retry
    /\ pc = "panicked"
    /\ Len(attempts) >= 2
    /\ IsRetry(Len(attempts))
    /\ ~Last(attempts).ok
    /\ events # <<>>

Unknown(s) ==
    /\ parse(s) = None
    /\ s \notin {"true", "open", "false", "closed"}
    /\ \A V \in Vocabularies : s \notin DOMAIN V

CantConvertLine(e) ==
    [line |-> "can't convert", value |-> e.value, device_id |-> e.device_id,
     node_id |-> e.node_id, property_id |-> e.property_id]

\* The position in `delivered` of the latest event a write was attempted for.
Written == IF attempts = <<>> THEN 0 ELSE Last(attempts).at

\* C8: an event whose value no rule accepts is normalised to 0.0 with exactly
\* one soft-failure observation; the batch is not aborted: its point, value
\* 0.0, is built and handed to the sink writer like any other, the process
\* never stops on the soft failure, and the events after it are handled.
C8_SoftFailureDoesNotAbort ==
    /\ \A i \in DOMAIN built :
          Unknown(built[i].event.value) =>
              /\ built[i].point.value = 0
              /\ Cardinality({j \in DOMAIN log : log[j] = CantConvertLine(built[i].event)})
                    >= 1
              /\ \/ \E k \in DOMAIN attempts :
                       /\ attempts[k].at = built[i].at
                       /\ attempts[k].point = built[i].point
                       /\ attempts[k].point.value = 0
                 \/ /\ i = Len(built)
                    /\ pc = "write"
                    /\ point = built[i].point
    /\ Cardinality({j \in DOMAIN log : log[j].line = "can't convert"})
          = Cardinality({i \in DOMAIN built : Unknown(built[i].event.value)})
    /\ terminated => log # <<>> /\ Last(log).line # "can't convert"
    /\ pc \in {"next", "poll"} =>
          /\ Written <= position
          /\ \A i \in DOMAIN built : built[i].at <= Written
          /\ pc = "poll" <=> events = <<>>

\* C8 witness: the point of an unknown value, 0.0, was accepted by the sink
\* and a later event of the same run was then built and accepted too.
C8_Witness ==
    \E i, j \in DOMAIN sink :
        /\ i < j
        /\ Unknown(delivered[sink[i].at].value)
        /\ sink[i].point.value = 0
        /\ Cardinality({l \in DOMAIN log : log[l].line = "can't convert"}) = 1

\* ------------------------------------------------------------ the builder
IsPropertyChange(e) == e.kind = "PropertyValueChanged"

\* The property-change events among the events taken from the batches so far.
PropertyChangesTaken == SelectSeq(SubSeq(delivered, 1, position), IsPropertyChange)

\* C9: one point is built per property-change event, in order, and its
\* device, node and property tags are the event's identifiers as delivered,
\* empty or not; once the loop is back at poll, the N property-change events
\* delivered so far have given exactly N points.
C9_OnePointPerEvent ==
    /\ Len(built) = Len(PropertyChangesTaken)
    /\ \A i \in DOMAIN built :
          /\ built[i].event = PropertyChangesTaken[i]
          /\ built[i].event = delivered[built[i].at]
          /\ built[i].point.device_id_tag = PropertyChangesTaken[i].device_id
          /\ built[i].point.node_id_tag = PropertyChangesTaken[i].node_id
          /\ built[i].point.property_id_tag = PropertyChangesTaken[i].property_id
    /\ pc = "poll" => Len(built) = Len(SelectSeq(delivered, IsPropertyChange))

\* C9 witness: three property-change events were delivered, one without
\* identifiers and one with, three points were built and the loop is back at
\* poll.
C9_Witness ==
    /\ pc = "poll"
    /\ Len(SelectSeq(delivered, IsPropertyChange)) = 3
    /\ Len(built) = 3
    /\ \E i, j \in DOMAIN built :
          /\ built[i].point.device_id_tag = ""
          /\ built[j].point.device_id_tag = "hvac"
          /\ built[j].point.node_id_tag = "zone1"

\* ------------------------------------------------------------- ordering
\* C10: the events of a batch are handled one after the other in the order
\* delivered: every write attempted for an event, its retry included, is
\* done before the next event is normalised, the sink receives the points in
\* arrival order, and no write is attempted on a connection being rebuilt.
C10_SequentialInArrivalOrder ==
    /\ \A k \in DOMAIN attempts :
          /\ attempts[k].event = delivered[attempts[k].at]
          /\ attempts[k].at <= position
          /\ attempts[k].conn # Dropped
          /\ k > 1 => attempts[k - 1].at <= attempts[k].at
    /\ \A i \in DOMAIN built :
          /\ built[i].event = delivered[built[i].at]
          /\ i > 1 => built[i - 1].at < built[i].at
    /\ \A i \in DOMAIN sink :
          /\ sink[i].point = HomieMetric(delivered[sink[i].at])
          /\ i > 1 => sink[i - 1].at < sink[i].at
    /\ pc = "write" =>
          /\ Last(built).at = position
          /\ \A k \in DOMAIN attempts : attempts[k].at < position
    /\ pc \in {"reconnect", "retry_write"} =>
          /\ Last(built).at = position
          /\ Last(attempts).at = position
    /\ telegraf_client = Dropped => pc \in {"reconnect", "panicked"}

\* C10 witness: two different events of one batch, the first written on its
\* retry, were accepted by the sink in the order delivered.
C10_Witness ==
    /\ Len(sink) >= 2
    /\ sink[1].at = 1
    /\ sink[2].at = 2
    /\ delivered[1] # delivered[2]
    /\ \E k \in DOMAIN attempts : IsRetry(k) /\ attempts[k].at = 1
    /\ events # <<>>

\* ------------------------------------------------ events of other kinds
\* The loop is about to handle an event that is not a property-value change.
AtOtherEvent ==
    /\ pc = "next"
    /\ events # <<>>
    /\ ~IsPropertyChange(Head(events))

\* The points of a sequence of events: those of its property-value changes.
PointsOf(evs) ==
    LET props == SelectSeq(evs, IsPropertyChange)
    IN [i \in DOMAIN props |-> HomieMetric(props[i])]

\* C11: handling an event that is not a property-value change is
\* observational only: the step reads the devices' readiness and logs it,
\* builds no point, attempts no write, leaves the sink and the telegraf
\* connection as they are and never terminates the loop, which goes on with
\* the rest of the batch; so the points built for the events taken are those
\* of the property-value changes among them, and every write is for one of
\* them.
C11_OtherEventsAreObservational ==
    /\ [][AtOtherEvent =>
            /\ built' = built
            /\ attempts' = attempts
            /\ reconnects' = reconnects
            /\ sink' = sink
            /\ telegraf_client' = telegraf_client
            /\ connections' = connections
            /\ point' = point
            /\ devices' = devices
            /\ delivered' = delivered
            /\ events' = Tail(events)
            /\ pc' = IF Tail(events) = <<>> THEN "poll" ELSE "next"
            /\ Len(log') = Len(log) + Cardinality(DOMAIN devices)
            /\ \A i \in (Len(log) + 1)..Len(log') :
                  log'[i].line \in {"device", "device not ready"}]_vars
    /\ [](/\ [i \in DOMAIN built |-> built[i].point]
               = PointsOf(SubSeq(delivered, 1, position))
          /\ \A k \in DOMAIN attempts : IsPropertyChange(delivered[attempts[k].at])
          /\ \A i \in DOMAIN sink : IsPropertyChange(delivered[sink[i].at]))

\* C11 witness: an event of another kind, delivered between two property
\* changes with a device not ready, has been handled: a line was logged for
\* the device, and the sink holds the two points and nothing else.
C11_Witness ==
    /\ Len(delivered) = 3
    /\ IsPropertyChange(delivered[1])
    /\ ~IsPropertyChange(delivered[2])
    /\ IsPropertyChange(delivered[3])
    /\ \E i \in DOMAIN log : log[i].line = "device not ready"
    /\ Len(sink) = 2
    /\ [i \in DOMAIN sink |-> sink[i].point] = PointsOf(delivered)
    /\ pc = "poll"

====
